---- MODULE Spec2Model ----
(***************************************************************************)
(* A model of the nominal crate (batch file renaming): the Renamer that    *)
(* accumulates (source, target) pairs, the Plan it validates and sorts,    *)
(* the Rename operation applied against a filesystem, and the path         *)
(* utilities used for rendering and for conflict detection.                *)
(*                                                                         *)
(* A path is the sequence of its characters.  std::path::Path is modelled  *)
(* by what it does on Unix: a path is parsed into components, and          *)
(* equality, ordering, starts_with, parent, ancestors and strip_prefix all *)
(* work on the components, never on the characters.                        *)
(***************************************************************************)
EXTENDS Integers, Sequences, FiniteSets, TLC

VARIABLES
    renames,    \* Renamer.renames: the pending operations, in insertion order
    plan,       \* Plan.renames: the operations of the Plan returned by plan()
    phase,      \* where the caller is: building, planned, written, applying, done
    writer,     \* the lines write_to has written to its writer
    path_1,     \* common_ancestor's first argument
    path_2,     \* common_ancestor's second argument
    ancestor,   \* common_ancestor's return value (an Option)
    fs,         \* the filesystem: existing node -> entry
    idx,        \* Plan::apply's position in its loop over the operations
    result,     \* what Plan::apply returned, once it has
    history     \* one record per Rename::apply call made so far

vars == <<renames, plan, phase, writer, path_1, path_2, ancestor, fs, idx, result, history>>

----------------------------------------------------------------------------
(* Bounds *)

\* Longest path (in characters) given to common_ancestor.
MaxPathLen == 4
\* Longest source and target (in characters) added to a Renamer whose plan is
\* only inspected and written.
MaxSourceLen == 1
MaxTargetLen == 2
\* Most operations added to such a Renamer.
MaxOps == 3

\* The characters paths are made of, and their bytes.
Alphabet == {".", "/", "a", "b"}
PlanAlphabet == {".", "/", "a"}

Byte(c) ==
    CASE c = " " -> 32
      [] c = "." -> 46
      [] c = "/" -> 47
      [] c = "=" -> 61
      [] c = ">" -> 62
      [] c = "a" -> 97
      [] c = "b" -> 98
      [] c = "{" -> 123
      [] c = "}" -> 125

PathsOver(alphabet, n) == UNION {[1..k -> alphabet] : k \in 0..n}

----------------------------------------------------------------------------
(* Option<T>: None is the empty set, Some(x) the singleton. *)

None == {}
Some(x) == {x}
Unwrap(o) == CHOOSE x \in o : TRUE

----------------------------------------------------------------------------
(* std::path on Unix *)

Sep == "/"

\* The text of path between two positions (empty when last < first).
Slice(path, first, last) == IF last < first THEN <<>> ELSE SubSeq(path, first, last)

\* The maximal separator-free segments of path from position i on, each with the
\* positions of its first and last character; the segment being read began at start.
RECURSIVE Segments(_, _, _)
Segments(path, i, start) ==
    IF i > Len(path)
    THEN <<[first |-> start, last |-> Len(path)]>>
    ELSE IF path[i] = Sep
         THEN <<[first |-> start, last |-> i - 1]>> \o Segments(path, i + 1, i + 1)
         ELSE Segments(path, i + 1, start)

HasRoot(path) == Len(path) > 0 /\ path[1] = Sep

\* Path::components: the root if the path starts with a separator, a leading "."
\* of a relative path, ".." as ParentDir, every other non-empty segment as Normal;
\* empty segments (repeated and trailing separators) and every other "." vanish.
SegmentComponent(path, segs, j) ==
    LET text == Slice(path, segs[j].first, segs[j].last)
    IN  IF text = <<>> THEN <<>>
        ELSE IF text = <<".">>
             THEN IF j = 1
                  THEN <<[kind |-> "CurDir", name |-> text,
                          first |-> segs[j].first, last |-> segs[j].last]>>
                  ELSE <<>>
             ELSE IF text = <<".", ".">>
                  THEN <<[kind |-> "ParentDir", name |-> text,
                          first |-> segs[j].first, last |-> segs[j].last]>>
                  ELSE <<[kind |-> "Normal", name |-> text,
                          first |-> segs[j].first, last |-> segs[j].last]>>

RECURSIVE BodyComponents(_, _, _)
BodyComponents(path, segs, j) ==
    IF j > Len(segs) THEN <<>>
    ELSE SegmentComponent(path, segs, j) \o BodyComponents(path, segs, j + 1)

Components(path) ==
    LET root == IF HasRoot(path)
                THEN <<[kind |-> "RootDir", name |-> <<Sep>>, first |-> 1, last |-> 1]>>
                ELSE <<>>
    IN  root \o BodyComponents(path, Segments(path, 1, 1), 1)

\* What two components are compared by: the variant and its text.
Key(c) == <<c.kind, c.name>>
Keys(path) == LET cs == Components(path) IN [i \in 1..Len(cs) |-> Key(cs[i])]

\* impl PartialEq for Path: the components are equal.
PathEq(p, q) == Keys(p) = Keys(q)

\* Path::starts_with: base's components are a prefix of path's.
StartsWith(path, base) ==
    LET ks == Keys(path)
        bs == Keys(base)
    IN  Len(bs) <= Len(ks) /\ SubSeq(ks, 1, Len(bs)) = bs

\* Path::parent: None for the empty path and for the root, otherwise the path up
\* to the end of the component before the last.
Parent(path) ==
    LET cs == Components(path)
        n  == Len(cs)
    IN  IF n = 0 \/ cs[n].kind = "RootDir" THEN None
        ELSE IF n = 1 THEN Some(<<>>)
        ELSE Some(Slice(path, 1, cs[n - 1].last))

\* Path::ancestors: the path, its parent, its parent's parent, ...
RECURSIVE Ancestors(_)
Ancestors(path) ==
    <<path>> \o (IF Parent(path) = None THEN <<>> ELSE Ancestors(Unwrap(Parent(path))))

\* Path::strip_prefix, for a base that path starts with: the text from the first
\* component after base to the last component.
StripPrefix(path, base) ==
    LET cs == Components(path)
        k  == Len(Components(base))
    IN  IF k >= Len(cs) THEN <<>>
        ELSE Slice(path, cs[k + 1].first, cs[Len(cs)].last)

\* Ord for bytes strings: lexicographic. -1, 0 or 1.
RECURSIVE CompareBytes(_, _)
CompareBytes(s, t) ==
    IF s = <<>> THEN (IF t = <<>> THEN 0 ELSE -1)
    ELSE IF t = <<>> THEN 1
    ELSE IF Byte(Head(s)) < Byte(Head(t)) THEN -1
    ELSE IF Byte(Head(s)) > Byte(Head(t)) THEN 1
    ELSE CompareBytes(Tail(s), Tail(t))

\* #[derive(Ord)] on enum Component: by variant in declaration order, then by text.
KindRank(kind) ==
    CASE kind = "RootDir" -> 1
      [] kind = "CurDir" -> 2
      [] kind = "ParentDir" -> 3
      [] kind = "Normal" -> 4

CompareComponent(c, d) ==
    IF KindRank(c[1]) < KindRank(d[1]) THEN -1
    ELSE IF KindRank(c[1]) > KindRank(d[1]) THEN 1
    ELSE CompareBytes(c[2], d[2])

RECURSIVE CompareKeys(_, _)
CompareKeys(ks, ls) ==
    IF ks = <<>> THEN (IF ls = <<>> THEN 0 ELSE -1)
    ELSE IF ls = <<>> THEN 1
    ELSE IF CompareComponent(Head(ks), Head(ls)) # 0
         THEN CompareComponent(Head(ks), Head(ls))
         ELSE CompareKeys(Tail(ks), Tail(ls))

\* impl Ord for Path: the component sequences, compared lexicographically.
PathCmp(p, q) == CompareKeys(Keys(p), Keys(q))

----------------------------------------------------------------------------
(* fsutil.rs *)

\* IsCommon without the test for the empty path.
IsCommonOrEmpty(candidate, other) == StartsWith(other, candidate)

\* The closure given to find.
IsCommon(candidate, other) == candidate # <<>> /\ StartsWith(other, candidate)

\* Iterator::find over the ancestors: the first one the closure accepts.
RECURSIVE FindCommon(_, _)
FindCommon(candidates, other) ==
    IF candidates = <<>> THEN None
    ELSE IF IsCommon(Head(candidates), other) THEN Some(Head(candidates))
    ELSE FindCommon(Tail(candidates), other)

common_ancestor(p1, p2) == FindCommon(Ancestors(p1), p2)

----------------------------------------------------------------------------
(* operation.rs: Rename and its Display *)

Rename(source, target) == [source |-> source, target |-> target]

\* impl fmt::Display for Rename: "<common>/{<source> => <target>}" with both
\* paths stripped of the common ancestor when there is one, else
\* "<source> => <target>".
Fmt(rename) ==
    LET common == common_ancestor(rename.source, rename.target)
    IN  IF common # None
        THEN Unwrap(common) \o <<"/", "{">>
                 \o StripPrefix(rename.source, Unwrap(common))
                 \o <<" ", "=", ">", " ">>
                 \o StripPrefix(rename.target, Unwrap(common))
                 \o <<"}">>
        ELSE rename.source \o <<" ", "=", ">", " ">> \o rename.target

----------------------------------------------------------------------------
(* renamer.rs *)

\* Retained with the test inverted.
RetainedInverted(r) == PathEq(r.source, r.target)

\* Retained comparing the characters of the paths instead of the paths.
RetainedTextual(r) == r.source # r.target

\* The closure given to retain.
Retained(r) == ~PathEq(r.source, r.target)

\* CompareRenames comparing the bytes of the targets instead of the paths.
CompareRenamesBytes(r1, r2) == CompareBytes(r1.target, r2.target)

\* The comparison given to sort_by (the build without the unicode feature).
CompareRenames(r1, r2) == PathCmp(r1.target, r2.target)

\* InsertSorted with an unstable sort: an element goes before the elements it
\* compares equal to.
RECURSIVE InsertSortedUnstable(_, _)
InsertSortedUnstable(sorted, r) ==
    IF sorted = <<>> THEN <<r>>
    ELSE IF PathCmp(Head(sorted).target, r.target) < 0
         THEN <<Head(sorted)>> \o InsertSortedUnstable(Tail(sorted), r)
         ELSE <<r>> \o sorted

\* slice::sort_by is a stable sort: an element goes after every element that
\* does not compare greater than it.
RECURSIVE InsertSorted(_, _)
InsertSorted(sorted, r) ==
    IF sorted = <<>> THEN <<r>>
    ELSE IF CompareRenames(Head(sorted), r) <= 0
         THEN <<Head(sorted)>> \o InsertSorted(Tail(sorted), r)
         ELSE <<r>> \o sorted

RECURSIVE SortBy(_)
SortBy(seq) ==
    IF seq = <<>> THEN <<>>
    ELSE InsertSorted(SortBy(SubSeq(seq, 1, Len(seq) - 1)), seq[Len(seq)])

\* Renamer::plan: retain, then sort by target.
PlanOf(pending) == SortBy(SelectSeq(pending, Retained))

\* Plan::write_to: one writeln per operation, in order.
Lines(p) == [i \in 1..Len(p) |-> Fmt(p[i])]

----------------------------------------------------------------------------
(* The values of the variables a specification does not use. *)

NoPath == <<>>
NoFs == <<>>

IdlePath == path_1 = NoPath /\ path_2 = NoPath /\ ancestor = None
IdleApply == fs = NoFs /\ idx = 1 /\ result = None /\ history = <<>>
IdleRenamer == renames = <<>> /\ plan = <<>> /\ writer = <<>>

----------------------------------------------------------------------------
(* The path utilities alone: common_ancestor on every pair of paths. *)

InitPath ==
    /\ path_1 \in PathsOver(Alphabet, MaxPathLen)
    /\ path_2 \in PathsOver(Alphabet, MaxPathLen)
    /\ ancestor = None
    /\ phase = "called"
    /\ IdleRenamer
    /\ IdleApply

CommonAncestor ==
    /\ phase = "called"
    /\ ancestor' = common_ancestor(path_1, path_2)
    /\ phase' = "returned"
    /\ UNCHANGED <<renames, plan, writer, path_1, path_2, fs, idx, result, history>>

NextPath == CommonAncestor

SpecPath == InitPath /\ [][NextPath]_vars

----------------------------------------------------------------------------
(* The Renamer and the Plan it makes, inspected and written. *)

\* Renamer::new
InitPlan ==
    /\ renames = <<>>
    /\ plan = <<>>
    /\ writer = <<>>
    /\ phase = "building"
    /\ IdlePath
    /\ IdleApply

\* Renamer::add
Add(source, target) ==
    /\ phase = "building"
    /\ renames' = Append(renames, Rename(source, target))
    /\ UNCHANGED <<plan, phase, writer, path_1, path_2, ancestor, fs, idx, result, history>>

\* Renamer::extend (and from_iter, on a new Renamer) with two pairs
Extend(pair1, pair2) ==
    /\ phase = "building"
    /\ renames' = renames \o <<Rename(pair1[1], pair1[2]), Rename(pair2[1], pair2[2])>>
    /\ UNCHANGED <<plan, phase, writer, path_1, path_2, ancestor, fs, idx, result, history>>

\* Renamer::plan
MakePlan ==
    /\ phase = "building"
    /\ plan' = PlanOf(renames)
    /\ phase' = "planned"
    /\ UNCHANGED <<renames, writer, path_1, path_2, ancestor, fs, idx, result, history>>

\* Plan::write_to
WriteTo ==
    /\ phase = "planned"
    /\ writer' = writer \o Lines(plan)
    /\ phase' = "written"
    /\ UNCHANGED <<renames, plan, path_1, path_2, ancestor, fs, idx, result, history>>

PlanSources == PathsOver(PlanAlphabet, MaxSourceLen)
PlanTargets == PathsOver(PlanAlphabet, MaxTargetLen)

NextPlan ==
    \/ /\ phase = "building" /\ Len(renames) < MaxOps
       /\ \E s \in PlanSources, t \in PlanTargets : Add(s, t)
    \/ /\ phase = "building" /\ Len(renames) + 2 <= MaxOps
       /\ \E p1 \in PlanSources \X PlanTargets, p2 \in PlanSources \X PlanTargets :
              Extend(p1, p2)
    \/ MakePlan
    \/ WriteTo

SpecPlan == InitPlan /\ [][NextPlan]_vars

----------------------------------------------------------------------------
(* The filesystem the operations are applied to.

   A node is the sequence of names leading to an entry from the working
   directory, which exists and is a directory.  The filesystem maps each
   existing node to its entry: a regular file, a directory or a symbolic link
   whose destination does not exist.  Every entry below the working directory
   has its parent among the nodes, and that parent is a directory.  ino tells
   the entries apart: an entry that was there at the start carries the node it
   was at, a directory made since carries the empty node. *)

Names == {<<"a">>, <<"b">>}

NodesUpTo(depth) == UNION {[1..k -> Names] : k \in 1..depth}

RECURSIVE Join(_)
Join(node) ==
    IF Len(node) = 1 THEN node[1]
    ELSE Join(SubSeq(node, 1, Len(node) - 1)) \o <<Sep>> \o node[Len(node)]

\* The relative paths of plain names, up to depth names long.
FsPaths(depth) == {Join(node) : node \in NodesUpTo(depth)}

\* The node a relative path of plain names (and "." components) leads to.
NodeOf(path) ==
    LET cs == SelectSeq(Components(path), LAMBDA c : c.kind = "Normal")
    IN  [i \in 1..Len(cs) |-> cs[i].name]

ParentNode(node) == SubSeq(node, 1, Len(node) - 1)

Entry(kind, ino) == [kind |-> kind, ino |-> ino]

IsDirNode(fsys, node) ==
    node = <<>> \/ (node \in DOMAIN fsys /\ fsys[node].kind = "dir")

\* Path resolution up to, not including, the last name: the error of the first
\* name that is missing, is a dangling link (ENOENT) or is a file (ENOTDIR).
RECURSIVE Walk(_, _, _)
Walk(fsys, node, k) ==
    IF k >= Len(node) THEN "Ok"
    ELSE IF SubSeq(node, 1, k) \notin DOMAIN fsys THEN "NotFound"
    ELSE IF fsys[SubSeq(node, 1, k)].kind = "symlink" THEN "NotFound"
    ELSE IF fsys[SubSeq(node, 1, k)].kind = "file" THEN "NotADirectory"
    ELSE Walk(fsys, node, k + 1)

\* The last name, once the names before it are resolved with status walked.
LastName(fsys, node, walked) ==
    IF walked # "Ok" THEN walked
    ELSE IF node = <<>> \/ node \in DOMAIN fsys THEN "Ok"
    ELSE "NotFound"

LStatNode(fsys, node) == LastName(fsys, node, Walk(fsys, node, 1))

\* lstat(2): the entry itself, a final symbolic link not followed.
LStat(fsys, path) ==
    IF path = <<>> THEN "NotFound" ELSE LStatNode(fsys, NodeOf(path))

Followed(fsys, node, status) ==
    IF status = "Ok" /\ node # <<>> /\ fsys[node].kind = "symlink"
    THEN "NotFound"
    ELSE status

StatNode(fsys, node) == Followed(fsys, node, LStatNode(fsys, node))

\* stat(2): a final symbolic link followed, to a destination that is not there.
Stat(fsys, path) ==
    IF path = <<>> THEN "NotFound" ELSE StatNode(fsys, NodeOf(path))

\* Path::exists
Exists(fsys, path) == Stat(fsys, path) = "Ok"

NewName(fsys, node, walked) ==
    IF walked # "Ok" THEN walked
    ELSE IF node \in DOMAIN fsys THEN "AlreadyExists"
    ELSE "Ok"

\* mkdir(2)
MkdirStatus(fsys, node) == NewName(fsys, node, Walk(fsys, node, 1))

WithDir(fsys, node) ==
    [n \in DOMAIN fsys \cup {node} |-> IF n = node THEN Entry("dir", <<>>) ELSE fsys[n]]

\* What a filesystem call leaves: the filesystem and its error, if any.
Done(fsys) == [fs |-> fsys, err |-> None]
Failed(fsys, error) == [fs |-> fsys, err |-> Some(error)]

\* An error of mkdir is forgiven when the directory is there.
Mkdir(fsys, node, status) ==
    IF status = "Ok" THEN Done(WithDir(fsys, node))
    ELSE IF IsDirNode(fsys, node) THEN Done(fsys)
    ELSE Failed(fsys, status)

\* create_dir_all making the last directory only (fs::create_dir).
create_dir(fsys, path) ==
    IF NodeOf(path) = <<>> THEN Done(fsys)
    ELSE IF MkdirStatus(fsys, NodeOf(path)) = "Ok" THEN Done(WithDir(fsys, NodeOf(path)))
    ELSE Failed(fsys, MkdirStatus(fsys, NodeOf(path)))

\* fs::create_dir_all: nothing for the empty path; mkdir, and when a parent is
\* missing, the parents first and mkdir again.
RECURSIVE CreateDirAllNode(_, _)
RECURSIVE AfterMkdir(_, _, _)
RECURSIVE AfterParents(_, _)

CreateDirAllNode(fsys, node) ==
    IF node = <<>> THEN Done(fsys)
    ELSE AfterMkdir(fsys, node, MkdirStatus(fsys, node))

AfterMkdir(fsys, node, status) ==
    IF status = "NotFound"
    THEN AfterParents(node, CreateDirAllNode(fsys, ParentNode(node)))
    ELSE Mkdir(fsys, node, status)

AfterParents(node, up) ==
    IF up.err # None THEN up
    ELSE Mkdir(up.fs, node, MkdirStatus(up.fs, node))

create_dir_all(fsys, path) == CreateDirAllNode(fsys, NodeOf(path))

IsBelow(node, dir) ==
    Len(dir) < Len(node) /\ SubSeq(node, 1, Len(dir)) = dir

HasChildren(fsys, node) == \E n \in DOMAIN fsys : IsBelow(n, node)

\* The filesystem with the entry at from, and all that is below it, at to; what
\* was at to, and below it, is gone.
Moved(fsys, from, to) ==
    [n \in {m \in DOMAIN fsys : m # from /\ ~IsBelow(m, from) /\ m # to /\ ~IsBelow(m, to)}
           \cup {to \o SubSeq(m, Len(from) + 1, Len(m)) :
                    m \in {k \in DOMAIN fsys : k = from \/ IsBelow(k, from)}} |->
        IF n = to \/ IsBelow(n, to)
        THEN fsys[from \o SubSeq(n, Len(to) + 1, Len(n))]
        ELSE fsys[n]]

\* rename(2), the old name resolved with status found.
RenameStatus(fsys, from, to, found) ==
    IF found # "Ok" THEN found
    ELSE IF from = <<>> \/ to = <<>> THEN "ResourceBusy"
    ELSE IF Walk(fsys, to, 1) # "Ok" THEN Walk(fsys, to, 1)
    ELSE IF from = to THEN "Same"
    ELSE IF IsBelow(to, from) THEN "InvalidInput"
    ELSE IF to \notin DOMAIN fsys THEN "Ok"
    ELSE IF fsys[from].kind = "dir"
         THEN IF fsys[to].kind # "dir" THEN "NotADirectory"
              ELSE IF HasChildren(fsys, to) THEN "DirectoryNotEmpty"
              ELSE "Ok"
         ELSE IF fsys[to].kind = "dir" THEN "IsADirectory" ELSE "Ok"

RenameNodes(fsys, from, to, status) ==
    IF status = "Ok" THEN Done(Moved(fsys, from, to))
    ELSE IF status = "Same" THEN Done(fsys)
    ELSE Failed(fsys, status)

RenameNode(fsys, from, to, found) ==
    RenameNodes(fsys, from, to, RenameStatus(fsys, from, to, found))

\* fs::rename
rename(fsys, from, to) ==
    RenameNode(fsys, NodeOf(from), NodeOf(to), LStat(fsys, from))

----------------------------------------------------------------------------
(* fsutil.rs: path_exists; error.rs *)

Ok(value) == [ok |-> TRUE, value |-> value]
Err(error) == [ok |-> FALSE, error |-> error]

\* The match on symlink_metadata's result.
Metadata(status) ==
    IF status = "Ok" THEN Ok(TRUE)
    ELSE IF status = "NotFound" THEN Ok(FALSE)
    ELSE Err(status)

\* path_exists with metadata in place of symlink_metadata: symbolic links followed.
path_exists_following(fsys, path) == Metadata(Stat(fsys, path))

path_exists(fsys, path) == Metadata(LStat(fsys, path))

TargetExists == [variant |-> "TargetExists"]
Io(error) == [variant |-> "Io", error |-> error]

ApplyError(source, target, details) ==
    [source |-> source, target |-> target, details |-> details]

target_exists(source, target) == ApplyError(source, target, TargetExists)
from_io(from, to, source) == ApplyError(from, to, Io(source))

----------------------------------------------------------------------------
(* operation.rs: Rename::apply; plan.rs: Plan::apply *)

\* fs::rename(source, target).map_err(from_io)?; Ok(())
Renamed(r, renamed) ==
    IF renamed.err # None
    THEN Failed(renamed.fs, from_io(r.source, r.target, Unwrap(renamed.err)))
    ELSE Done(renamed.fs)

\* fs::create_dir_all(target_parent).map_err(from_io)?, then the rename
ParentMade(r, made) ==
    IF made.err # None
    THEN Failed(made.fs, from_io(r.source, r.target, Unwrap(made.err)))
    ELSE Renamed(r, rename(made.fs, r.source, r.target))

\* if let Some(target_parent) = target.parent() { if !target_parent.exists() { .. } }
MakeParent(fsys, parent) ==
    IF parent # None /\ ~Exists(fsys, Unwrap(parent))
    THEN create_dir_all(fsys, Unwrap(parent))
    ELSE Done(fsys)

\* Checked without the return of TargetExists.
Unchecked(fsys, r, exists) ==
    IF ~exists.ok THEN Failed(fsys, from_io(r.source, r.target, exists.error))
    ELSE ParentMade(r, MakeParent(fsys, Parent(r.target)))

\* if path_exists(target).map_err(from_io)? { return Err(target_exists) }
Checked(fsys, r, exists) ==
    IF ~exists.ok THEN Failed(fsys, from_io(r.source, r.target, exists.error))
    ELSE IF exists.value THEN Failed(fsys, target_exists(r.source, r.target))
    ELSE ParentMade(r, MakeParent(fsys, Parent(r.target)))

\* Rename::apply on a filesystem: the filesystem it leaves and its error, if any.
RenameApply(fsys, r) == Checked(fsys, r, path_exists(fsys, r.target))

\* The record kept of one Rename::apply call.
Call(r, before, outcome) ==
    [rename |-> r, before |-> before, after |-> outcome.fs, err |-> outcome.err]

\* Question with the error dropped: the loop goes on after a failure.
QuestionGoesOn(r, i, before, outcome) ==
    [fs |-> outcome.fs, idx |-> i + 1, phase |-> "applying", result |-> None,
     calls |-> <<Call(r, before, outcome)>>]

\* rename.apply()?: the error returns from Plan::apply, success goes on to the
\* next operation.
Question(r, i, before, outcome) ==
    IF outcome.err # None
    THEN [fs |-> outcome.fs, idx |-> i, phase |-> "done",
          result |-> Some(Err(Unwrap(outcome.err))),
          calls |-> <<Call(r, before, outcome)>>]
    ELSE [fs |-> outcome.fs, idx |-> i + 1, phase |-> "applying",
          result |-> None,
          calls |-> <<Call(r, before, outcome)>>]

\* One turn of Plan::apply's loop over the operations, at position i: the loop
\* is over and apply returns Ok, or the operation at i is applied.
LoopStep(ops, i, fsys) ==
    IF i > Len(ops)
    THEN [fs |-> fsys, idx |-> i, phase |-> "done", result |-> Some(Ok(<<>>)), calls |-> <<>>]
    ELSE Question(ops[i], i, fsys, RenameApply(fsys, ops[i]))

Take(step) ==
    /\ fs' = step.fs
    /\ idx' = step.idx
    /\ phase' = step.phase
    /\ result' = step.result
    /\ history' = history \o step.calls

\* Plan::apply, one turn of its loop at a time
ApplyStep ==
    /\ phase \in {"planned", "applying"}
    /\ Take(LoopStep(plan, idx, fs))
    /\ UNCHANGED <<renames, plan, writer, path_1, path_2, ancestor>>

----------------------------------------------------------------------------
(* Plans applied to a filesystem. *)

\* Most entries of the filesystem at the start.
MaxEntries == 3
\* Most operations of an applied batch, and the longest of their paths, in names.
MaxBatch == 2
MaxBatchDepth == 2
\* The longest path, in names, of an operation applied alone.
MaxRenameDepth == 3

Kinds == {"file", "dir", "symlink"}

Range(f) == {f[x] : x \in DOMAIN f}

\* The sets of at most n elements of S.
SmallSubsets(S, n) == {{}} \cup {Range(f) : f \in [1..n -> S]}

\* The filesystems of at most n entries no deeper than depth.
InitialFs(depth, n) ==
    LET shapes == {S \in SmallSubsets(NodesUpTo(depth), n) :
                      \A node \in S : Len(node) > 1 => ParentNode(node) \in S}
        kinds  == UNION {[S -> Kinds] : S \in shapes}
        trees  == {k \in kinds :
                      \A node \in DOMAIN k : Len(node) > 1 => k[ParentNode(node)] = "dir"}
    IN  {[node \in DOMAIN k |-> Entry(k[node], node)] : k \in trees}

BatchFs == InitialFs(MaxBatchDepth, MaxEntries)
RenameFs == InitialFs(MaxRenameDepth, MaxEntries)

InitFs(initial) ==
    /\ renames = <<>>
    /\ plan = <<>>
    /\ writer = <<>>
    /\ phase = "building"
    /\ IdlePath
    /\ fs \in initial
    /\ idx = 1
    /\ result = None
    /\ history = <<>>

\* A batch of operations, planned and applied.
InitApply == InitFs(BatchFs)

NextApply ==
    \/ /\ phase = "building" /\ Len(renames) < MaxBatch
       /\ \E s \in FsPaths(MaxBatchDepth), t \in FsPaths(MaxBatchDepth) : Add(s, t)
    \/ MakePlan
    \/ ApplyStep

SpecApply == InitApply /\ [][NextApply]_vars

\* One operation, planned and applied.
InitRename == InitFs(RenameFs)

NextRename ==
    \/ /\ phase = "building" /\ renames = <<>>
       /\ \E s \in FsPaths(MaxRenameDepth), t \in FsPaths(MaxRenameDepth) : Add(s, t)
    \/ MakePlan
    \/ ApplyStep

SpecRename == InitRename /\ [][NextRename]_vars

----------------------------------------------------------------------------
(* Vocabulary of the properties *)

Min(m, n) == IF m < n THEN m ELSE n

\* The longest common prefix of two sequences.
RECURSIVE CommonPrefix(_, _)
CommonPrefix(ks, ls) ==
    IF ks = <<>> \/ ls = <<>> \/ Head(ks) # Head(ls) THEN <<>>
    ELSE <<Head(ks)>> \o CommonPrefix(Tail(ks), Tail(ls))

IsTextPrefix(prefix, text) ==
    Len(prefix) <= Len(text) /\ SubSeq(text, 1, Len(prefix)) = prefix

\* How many times x occurs in seq.
Count(seq, x) == Cardinality({i \in 1..Len(seq) : seq[i] = x})

Planned == phase \in {"planned", "written"}

\* s is smaller than t in byte-wise lexicographic order: at the first position
\* where they differ s has the smaller byte, or s is a proper prefix of t.
BytesLess(s, t) ==
    \E n \in 0..Min(Len(s), Len(t)) :
        /\ \A m \in 1..n : s[m] = t[m]
        /\ \/ n = Len(s) /\ n < Len(t)
           \/ n < Len(s) /\ n < Len(t) /\ Byte(s[n + 1]) < Byte(t[n + 1])

\* Component c sorts before d: root, then ".", then "..", then the names by bytes.
ComponentLess(c, d) ==
    \/ KindRank(c[1]) < KindRank(d[1])
    \/ c[1] = d[1] /\ BytesLess(c[2], d[2])

\* p is smaller than q component by component.
ComponentwiseLess(p, q) ==
    LET ks == Keys(p)
        ls == Keys(q)
    IN  \E n \in 0..Min(Len(ks), Len(ls)) :
            /\ \A m \in 1..n : ks[m] = ls[m]
            /\ \/ n = Len(ks) /\ n < Len(ls)
               \/ n < Len(ks) /\ n < Len(ls) /\ ComponentLess(ks[n + 1], ls[n + 1])

\* The operations of seq whose target is the same path as t, in order.
WithTarget(seq, t) == SelectSeq(seq, LAMBDA r : PathEq(r.target, t))

\* seq rearranged by the permutation f of its indices.
Permuted(seq, f) == [i \in 1..Len(seq) |-> seq[f[i]]]
PermutationsOf(n) == {f \in [1..n -> 1..n] : \A i, j \in 1..n : f[i] = f[j] => i = j}

----------------------------------------------------------------------------
(* C1 *)

\* C1: whatever was added, the Plan returned by plan() holds no operation whose
\* source equals its target (as paths, hence also as text); a Renamer that is
\* empty or holds only source == target pairs plans to the empty Plan
\* (is_empty(), len() = 0); and plan() returns a Plan from every Renamer.
C1_NoNoOps ==
    Planned =>
        /\ \A i \in 1..Len(plan) :
               /\ ~PathEq(plan[i].source, plan[i].target)
               /\ plan[i].source # plan[i].target
        /\ (\A j \in 1..Len(renames) : renames[j].source = renames[j].target)
               => plan = <<>> /\ Len(plan) = 0

\* A Renamer holding a source == target pair and another pair was planned.
C1_Witness ==
    /\ phase = "planned"
    /\ Len(renames) = 2
    /\ renames[1].source = renames[1].target
    /\ Len(plan) = 1
    /\ plan[1] = renames[2]

----------------------------------------------------------------------------
(* C2 *)

\* C2 as claimed: every pending operation whose source and target differ as
\* text is in the Plan once per time it was added.
C2_TextualEquality ==
    Planned =>
        \A j \in 1..Len(renames) :
            renames[j].source # renames[j].target
                => Count(plan, renames[j]) = Count(renames, renames[j])

\* C2, amended: plan() removes exactly the operations whose source and target
\* are the same path, that is have the same components (a repeated or trailing
\* separator and a "." after the start do not make a path different); every
\* other pending operation is in the Plan once per time it was added, duplicate
\* sources and duplicate targets included, and plan() never fails.
C2_ComponentEquality ==
    Planned =>
        /\ \A j \in 1..Len(renames) :
            Count(plan, renames[j]) =
                IF Keys(renames[j].source) = Keys(renames[j].target)
                THEN 0
                ELSE Count(renames, renames[j])
        /\ \A i \in 1..Len(plan) : Count(renames, plan[i]) > 0

\* A pair differing only by a trailing separator was dropped, and an operation
\* added twice was kept twice.
C2_Witness ==
    /\ phase = "planned"
    /\ Len(renames) = 3
    /\ renames[1] = Rename(<<"a">>, <<"a", "/">>)
    /\ renames[2] = renames[3]
    /\ plan = <<renames[2], renames[3]>>

----------------------------------------------------------------------------
(* C3 *)

\* C3 as claimed: every entry's target is less than or equal to the next one's;
\* operations whose targets are the same text are in the order they were added
\* in; and when the targets are pairwise different texts, every order of adding
\* the same operations gives the same Plan.
C3_TextuallyDistinctTargets ==
    phase = "planned" =>
        /\ \A i \in 1..(Len(plan) - 1) :
               \/ ComponentwiseLess(plan[i].target, plan[i + 1].target)
               \/ PathEq(plan[i].target, plan[i + 1].target)
        /\ \A j \in 1..Len(renames) :
               SelectSeq(plan, LAMBDA r : r.target = renames[j].target)
                   = SelectSeq(SelectSeq(renames, Retained),
                               LAMBDA r : r.target = renames[j].target)
        /\ (\A i, j \in 1..Len(renames) :
                i # j => renames[i].target # renames[j].target)
               => \A f \in PermutationsOf(Len(renames)) :
                      PlanOf(Permuted(renames, f)) = plan

\* C3, amended: the Plan is the stable sort of the retained operations by target,
\* targets compared as paths: every entry's target is less than or equal to the
\* next one's; operations whose targets are the same path (the same components,
\* however written) are in the order they were added in; and when the targets
\* are pairwise different paths, every order of adding the same operations gives
\* the same Plan.
C3_StableSortByTarget ==
    phase = "planned" =>
        /\ \A i \in 1..(Len(plan) - 1) :
               \/ ComponentwiseLess(plan[i].target, plan[i + 1].target)
               \/ PathEq(plan[i].target, plan[i + 1].target)
        /\ \A j \in 1..Len(renames) :
               WithTarget(plan, renames[j].target)
                   = WithTarget(SelectSeq(renames, Retained), renames[j].target)
        /\ (\A i, j \in 1..Len(renames) :
                i # j => ~PathEq(renames[i].target, renames[j].target))
               => \A f \in PermutationsOf(Len(renames)) :
                      PlanOf(Permuted(renames, f)) = plan

\* Three operations were reordered by plan(), the two with the same target
\* (written differently) keeping the order they were added in.
C3_Witness ==
    /\ phase = "planned"
    /\ Len(plan) = 3
    /\ plan = <<renames[3], renames[1], renames[2]>>
    /\ PathEq(renames[1].target, renames[2].target)
    /\ renames[1].target # renames[2].target
    /\ renames[1].source # renames[2].source

----------------------------------------------------------------------------
(* C7 *)

\* C7: common_ancestor(p1, p2) is the deepest ancestor of p1, p1 included, whose
\* components are a prefix of p2's, provided it is not empty: its components are
\* the longest common prefix of the components of p1 and p2 and its text is the
\* beginning of p1's; it is p1 itself when p2 is p1 or lies under it, the root
\* when two absolute paths share the root only, and None when the paths share no
\* leading component.
C7_DeepestCommonAncestor ==
    phase = "returned" =>
        LET common == CommonPrefix(Keys(path_1), Keys(path_2))
        IN  IF common = <<>>
            THEN ancestor = None
            ELSE /\ ancestor # None
                 /\ Unwrap(ancestor) # <<>>
                 /\ Keys(Unwrap(ancestor)) = common
                 /\ IsTextPrefix(Unwrap(ancestor), path_1)
                 /\ common = Keys(path_1) => ancestor = Some(path_1)
                 /\ common = <<<<"RootDir", <<Sep>>>>>> => PathEq(Unwrap(ancestor), <<Sep>>)

\* common_ancestor("/a/b", "/a/a") returned "/a".
C7_Witness ==
    /\ phase = "returned"
    /\ path_1 = <<"/", "a", "/", "b">>
    /\ path_2 = <<"/", "a", "/", "a">>
    /\ ancestor = Some(<<"/", "a">>)

----------------------------------------------------------------------------
(* C8 *)

\* Source and target share an ancestor other than the root.
ShareNonRootAncestor(r) ==
    LET common == CommonPrefix(Keys(r.source), Keys(r.target))
    IN  common # <<>> /\ common # <<<<"RootDir", <<Sep>>>>>>

Grouped(r) ==
    LET common == Unwrap(common_ancestor(r.source, r.target))
    IN  common \o <<"/", "{">> \o StripPrefix(r.source, common)
            \o <<" ", "=", ">", " ">> \o StripPrefix(r.target, common) \o <<"}">>

Ungrouped(r) == r.source \o <<" ", "=", ">", " ">> \o r.target

\* C8: write_to writes one line per operation of the Plan, in the Plan's order;
\* the line is the grouped form exactly when source and target share a common
\* ancestor other than the root, and the ungrouped form otherwise (absolute
\* paths sharing only the root, relative paths sharing nothing).
C8_GroupedIffNonRootAncestor ==
    phase = "written" =>
        /\ Len(writer) = Len(plan)
        /\ \A i \in 1..Len(plan) :
               writer[i] = IF ShareNonRootAncestor(plan[i])
                           THEN Grouped(plan[i])
                           ELSE Ungrouped(plan[i])

----------------------------------------------------------------------------
(* C9 *)

\* C9 as claimed: of two operations of the Plan whose targets differ as text,
\* the one whose target is smaller byte by byte comes first.
C9_ByteOrder ==
    Planned =>
        \A i, j \in 1..Len(plan) :
            (i < j /\ plan[i].target # plan[j].target)
                => BytesLess(plan[i].target, plan[j].target)

\* C9, amended: without locale-aware collation the order is the one of paths,
\* component by component: of two operations of the Plan whose targets are
\* different paths, the one whose target is smaller in the lexicographic order
\* of the component sequences comes first (a component is the root, ".", ".."
\* or a name, in that order, names compared by bytes; separators delimit the
\* components and are not compared).
C9_ComponentOrder ==
    Planned =>
        \A i, j \in 1..Len(plan) :
            (i < j /\ ~PathEq(plan[i].target, plan[j].target))
                => ComponentwiseLess(plan[i].target, plan[j].target)

\* Two targets that bytes and components order differently were planned.
C9_Witness ==
    /\ phase = "planned"
    /\ Len(plan) = 2
    /\ plan[1].target = <<"a", "/">>
    /\ plan[2].target = <<"a", ".">>
    /\ BytesLess(plan[2].target, plan[1].target)

----------------------------------------------------------------------------
(* Vocabulary of the properties about applied plans *)

Applying == phase \in {"planned", "applying", "done"}

Source(call) == NodeOf(call.rename.source)
Target(call) == NodeOf(call.rename.target)

\* The filesystem before Plan::apply began.
FsAtStart == IF history = <<>> THEN fs ELSE history[1].before

\* The filesystem after the first k of the operations ops, applied in order.
RECURSIVE AfterFirst(_, _, _)
AfterFirst(fsys, ops, k) ==
    IF k = 0 THEN fsys
    ELSE RenameApply(AfterFirst(fsys, ops, k - 1), ops[k]).fs

\* The filesystem is a tree: every entry's parent is there and is a directory.
IsTree(fsys) ==
    \A node \in DOMAIN fsys :
        /\ node # <<>>
        /\ Len(node) > 1 =>
               ParentNode(node) \in DOMAIN fsys /\ fsys[ParentNode(node)].kind = "dir"

FsIsTree == fs # NoFs => IsTree(fs)

\* No proper ancestor of node is a file or a symbolic link.
BelowDirectoriesOnly(fsys, node) ==
    \A k \in 1..(Len(node) - 1) :
        SubSeq(node, 1, k) \in DOMAIN fsys => fsys[SubSeq(node, 1, k)].kind = "dir"

\* call moved the entry at its source, with all below it, to its target, made the
\* missing directories above the target, and changed nothing else.
MovedToTarget(call) ==
    LET s == Source(call)
        t == Target(call)
        rest(m) == SubSeq(m, Len(s) + 1, Len(m))
    IN  /\ call.err = None
        /\ s \notin DOMAIN call.after
        /\ t \in DOMAIN call.after
        /\ call.after[t] = call.before[s]
        /\ \A m \in DOMAIN call.before :
               IF m = s \/ IsBelow(m, s)
               THEN /\ m \notin DOMAIN call.after
                    /\ t \o rest(m) \in DOMAIN call.after
                    /\ call.after[t \o rest(m)] = call.before[m]
               ELSE m \in DOMAIN call.after /\ call.after[m] = call.before[m]
        /\ \A k \in 1..(Len(t) - 1) :
               /\ SubSeq(t, 1, k) \in DOMAIN call.after
               /\ call.after[SubSeq(t, 1, k)].kind = "dir"
        /\ \A m \in DOMAIN call.after :
               \/ m \in DOMAIN call.before
               \/ m = t \/ IsBelow(m, t)
               \/ IsBelow(t, m) /\ call.after[m] = Entry("dir", <<>>)

----------------------------------------------------------------------------
(* C4 *)

\* C4: Plan::apply applies the operations in the Plan's order and stops at the
\* first that fails: the calls made are those of the first operations of the
\* Plan, in order, and all but the last succeeded; when apply returns an error it
\* is the error of the last call and carries that operation's source and target,
\* the filesystem is the one the operations before it and the failed call left
\* (nothing is rolled back), and no later operation was applied; apply returns
\* Ok only when every operation of the Plan was applied and succeeded.
C4_StopsAtFirstFailure ==
    Applying =>
        LET n == Len(history)
        IN  /\ n <= Len(plan)
            /\ \A i \in 1..n : history[i].rename = plan[i]
            /\ \A i \in 1..(n - 1) :
                   history[i].err = None /\ history[i + 1].before = history[i].after
            /\ n > 0 => fs = history[n].after
            /\ phase # "done" =>
                   result = None /\ idx = n + 1 /\ \A i \in 1..n : history[i].err = None
            /\ phase # "done" \/ ~Unwrap(result).ok =>
                   fs = AfterFirst(FsAtStart, plan, n)
            /\ phase = "done" =>
                   /\ result # None
                   /\ IF Unwrap(result).ok
                      THEN n = Len(plan) /\ \A i \in 1..n : history[i].err = None
                      ELSE /\ n >= 1
                           /\ history[n].err = Some(Unwrap(result).error)
                           /\ Unwrap(result).error.source = plan[n].source
                           /\ Unwrap(result).error.target = plan[n].target

\* The first of two operations was applied and moved an entry, the second found
\* its target there and failed, and apply returned its error.
C4_Witness ==
    /\ phase = "done"
    /\ Len(plan) = 2
    /\ Len(history) = 2
    /\ history[1].err = None
    /\ history[1].after # history[1].before
    /\ result = Some(Err(target_exists(plan[2].source, plan[2].target)))
    /\ fs = history[1].after

----------------------------------------------------------------------------
(* C5 *)

\* C5: a rename whose target has an entry when it is applied (a symbolic link to
\* nothing is an entry) fails with TargetExists carrying its source and target
\* and changes nothing in the filesystem.
C5_TargetExistsChangesNothing ==
    \A i \in 1..Len(history) :
        Target(history[i]) \in DOMAIN history[i].before =>
            /\ history[i].err = Some(ApplyError(history[i].rename.source,
                                                history[i].rename.target, TargetExists))
            /\ history[i].after = history[i].before

\* A file was renamed to the name of a dangling symbolic link.
C5_Witness ==
    /\ Len(history) = 1
    /\ Source(history[1]) \in DOMAIN history[1].before
    /\ history[1].before[Source(history[1])].kind = "file"
    /\ Target(history[1]) \in DOMAIN history[1].before
    /\ history[1].before[Target(history[1])].kind = "symlink"
    /\ history[1].err # None
    /\ fs = history[1].before

----------------------------------------------------------------------------
(* C6 *)

----------------------------------------------------------------------------
(* C10 *)

\* The nodes now holding the file that was at node when apply began.
Holding(node) == {m \in DOMAIN fs : fs[m].kind = "file" /\ fs[m].ino = node}

\* The targets of the renames applied so far.
AppliedTargets == {Target(history[i]) : i \in {j \in 1..Len(history) : history[j].err = None}}

FilesAtStart == {node \in DOMAIN FsAtStart : FsAtStart[node].kind = "file"}

\* No call replaced an entry that was at its target.
NothingReplaced ==
    \A i \in 1..Len(history) :
        Target(history[i]) \in DOMAIN history[i].before =>
            /\ Target(history[i]) \in DOMAIN history[i].after
            /\ history[i].after[Target(history[i])] = history[i].before[Target(history[i])]

\* C10 as claimed: in every state of apply each file that was there at the start
\* is at exactly one path, its original path or the target of an applied rename,
\* and no entry at a target has been replaced.
C10_FilesAtOriginalPathOrTarget ==
    Applying =>
        /\ \A node \in FilesAtStart :
               \E m \in DOMAIN fs :
                   /\ Holding(node) = {m}
                   /\ m = node \/ m \in AppliedTargets
        /\ NothingReplaced

\* C10, amended: in every state of apply, whether it goes on, has succeeded or
\* has failed part-way, each file that was there at the start is at exactly one
\* path: its original path, the target of an applied rename, or a path below the
\* target of an applied rename (of a directory it is in); and no entry at a target
\* has been replaced.
C10_FilesKept ==
    Applying =>
        /\ \A node \in FilesAtStart :
               \E m \in DOMAIN fs :
                   /\ Holding(node) = {m}
                   /\ \/ m = node
                      \/ m \in AppliedTargets
                      \/ \E t \in AppliedTargets : IsBelow(m, t)
        /\ NothingReplaced

\* A directory holding a file was renamed, and apply then failed on the next
\* operation: the file is below the first target.
C10_Witness ==
    /\ phase = "done"
    /\ Len(history) = 2
    /\ history[1].err = None
    /\ history[2].err # None
    /\ \E node \in FilesAtStart :
           \E m \in Holding(node) :
               m # node /\ m \notin AppliedTargets /\ IsBelow(m, Target(history[1]))

====
